---- MODULE Spec2Model ----
(***************************************************************************)
(* Capture-detect-filter-alert pipeline of the smartphone monitor:         *)
(*   utils/detection.py       SmartphoneDetector                           *)
(*   utils/screen_capture.py  ScreenCapture                                *)
(*   gui.py                   SmartphoneMonitorGUI                         *)
(*                                                                         *)
(* Units.  A confidence or a threshold is an integer number of tenths      *)
(* (5 is 0.5); a duration is an integer number of tenths of a second.      *)
(* The detection capability returns float box coordinates; a raw           *)
(* coordinate is an integer number of half pixels (7 is 3.5 px) and int()  *)
(* truncates it to whole pixels.  A box centre (x1+x2)/2 is compared with  *)
(* zone bounds after doubling both sides, so half-pixel centres are exact. *)
(*                                                                         *)
(* An image is represented by what the detection capability finds in it:   *)
(* the sequence of raw detections self.model(image, ...) returns.          *)
(*                                                                         *)
(* Five specifications:                                                    *)
(*   SpecDetector     the detector alone, called by one caller             *)
(*   SpecCapture      the capture scheduler alone, with callbacks of its   *)
(*                    caller (SpecCaptureFair adds the scheduling)         *)
(*   Spec             the GUI driving both: monitoring, alerts; a          *)
(*                    detection is one step                                *)
(*   SpecCycle        one monitoring run of the GUI with the detection     *)
(*                    taken box by box, beside the threshold slider and    *)
(*                    the zone selection of the UI context                 *)
(*   SpecGeometry     the zone editor while nothing is monitored: images   *)
(*                    loaded from files, zones drawn by dragging, with     *)
(*                    the conversion between canvas and frame pixels       *)
(***************************************************************************)
EXTENDS Integers, Sequences, FiniteSets, TLC

(***************************************************************************)
(* Bounds of the model.                                                    *)
(***************************************************************************)
\* boxes returned by one inference
MaxBoxes == 2
\* exclusion zones in a zone list
MaxZones == 2
\* background threads alive at the same time
MaxThreads == 2
\* alert tabs created in one alert window
MaxAlerts == 2

(***************************************************************************)
(* Program constants.                                                      *)
(***************************************************************************)
\* SmartphoneDetector.__init__: self.confidence_threshold = 0.5
DefaultThreshold == 5
\* ScreenCapture.__init__: capture_interval=1.5
DefaultInterval == 15
\* set_capture_interval: max(0.1, float(interval))
MinInterval == 1
\* stop_capture: join(timeout=2.0)
JoinTimeout == 20
\* _capture_loop: time.sleep(1) after a failure
FallbackDelay == 10
\* on_mouse_up: a selection under 20 pixels wide or high is refused
MinDrag == 20

(***************************************************************************)
(* Input domains.                                                          *)
(***************************************************************************)
\* arguments tried on set_confidence_threshold: -0.1, 0, 0.5, 1.0, 1.5
ThresholdInputs == {-1, 0, 5, 10, 15}

\* positions of the threshold slider (0.1 to 0.9) tried: 0.5 and 0.9
SliderThresholds == {5, 9}

\* arguments tried on set_capture_interval: 0, 1.5 and 5.0 seconds
IntervalInputs == {0, 15, 50}

\* confidences the detection capability reports
ConfValues == {5, 9}

\* float boxes (x1, y1, x2, y2) in half pixels, with their class id
BoxA == [xyxy |-> <<3, 3, 7, 7>>,    cls |-> 0]    \* int box (1,1,3,3), centre (2,2)
BoxB == [xyxy |-> <<7, 2, 11, 6>>,   cls |-> 0]    \* int box (3,1,5,3), centre (4,2)
BoxC == [xyxy |-> <<9, 3, 11, 7>>,   cls |-> 1]    \* int box (4,1,5,3), centre (4.5,2)
BoxD == [xyxy |-> <<12, 8, 17, 13>>, cls |-> 0]    \* int box (6,4,8,6), centre (7,5)

RawBoxes == {BoxA, BoxB, BoxC, BoxD}

Detection(b, c) == [xyxy |-> b.xyxy, conf |-> c, cls |-> b.cls]

RawDetections == { Detection(b, c) : b \in RawBoxes, c \in ConfValues }

\* exclusion zones (x1, y1, x2, y2) in whole pixels of the frame
ZoneLeft == <<0, 0, 4, 6>>
ZoneRight == <<4, 4, 7, 6>>

ZoneValues == {ZoneLeft, ZoneRight}

SeqsUpTo(S, n) == UNION { [1..k -> S] : k \in 0..n }

\* images handed to the detector alone, and zone lists handed with them
RawInputs == SeqsUpTo(RawDetections, MaxBoxes)
ZoneLists == SeqsUpTo(ZoneValues, MaxZones)

\* what the screen shows when the GUI's capture loop grabs it: nothing, a
\* phone at BoxA, phones at BoxA and BoxD
GrabImages == { <<>>, <<Detection(BoxA, 9)>>, <<Detection(BoxA, 9), Detection(BoxD, 9)>> }

\* contents of excluded_areas.json when the GUI is constructed
FileZoneLists == { <<>>, <<ZoneLeft>>, <<ZoneLeft, ZoneRight>> }

\* callables handed to start_capture by a caller of the scheduler alone;
\* "None" is callback=None
CallbackValues == {"None", "cbA", "cbB"}

Threads == 1..MaxThreads

\* the shape (w, h) of an image on the preview and the size of the preview
\* canvas around it
Preview(w, h, canvas_width, canvas_height) ==
    [w |-> w, h |-> h, canvas_width |-> canvas_width, canvas_height |-> canvas_height]

\* a captured screen of 80 x 60 on a canvas of 40 x 30
ScreenPreview == Preview(80, 60, 40, 30)

\* images loaded from a file onto the same canvas: half scale; scale 2.5;
\* scale 1 with bars left and right; scale 2/3 with bars above and below
LoadedPreviews ==
    { Preview(80, 60, 40, 30), Preview(16, 12, 40, 30),
      Preview(30, 30, 40, 30), Preview(60, 30, 40, 30) }

\* canvas coordinates of the ends of a drag
DragXs == {0, 7, 40}
DragYs == {4, 30}

(***************************************************************************)
(* State.                                                                  *)
(***************************************************************************)
VARIABLES
    \* SmartphoneDetector
    confidence_threshold,
    smartphone_detected,
    last_confidence,
    last_detections,
    \* ScreenCapture
    _running,
    _capture_thread,        \* 0 is None, otherwise the thread object
    _callback,
    capture_interval,
    \* the background threads: where each is in _capture_loop ("idle": not
    \* started, or finished), the callable it is running, the image it
    \* grabbed, and where it is in process_screenshot
    pc,
    cb,
    img,
    ps,
    \* the consumer (UI) context: "idle", or "join" inside stop_capture
    ui_pc,
    \* SmartphoneMonitorGUI
    is_monitoring,
    notification_shown,
    notification_window,    \* "none" is None, "open", or "destroyed"
    notification_tabs,      \* the alert numbers of the open tabs, in tab order
    tab_count,
    exclusion_zones,
    is_selecting_zone,
    current_image,          \* FALSE is None, TRUE is an image
    preview,                \* the shape of the image on the preview and the
                            \* size of the preview canvas
    \* the caller of the detector alone: the image it holds
    image,
    \* the last call made by the caller of the detector alone or of the
    \* scheduler alone: its arguments, what it read and, once it has
    \* returned, what it returned
    last_call

detVars == <<confidence_threshold, smartphone_detected, last_confidence,
             last_detections>>

capVars == <<_running, _capture_thread, _callback, capture_interval, pc, cb, img, ui_pc>>

alertVars == <<notification_shown, notification_window, notification_tabs, tab_count>>

guiVars == <<is_monitoring, alertVars, exclusion_zones>>

selVars == <<is_selecting_zone, current_image, preview>>

vars == <<detVars, capVars, ps, guiVars, selVars, image, last_call>>

\* what start_capture found when it was called
NoPre == [running |-> FALSE, callback |-> "None", thread |-> 0, alive |-> {}, interval |-> 0]

NoCall ==
    [op |-> "none", raw |-> <<>>, zones |-> <<>>, thr |-> 0, arg |-> 0,
     prev_confidence |-> 0, ret |-> FALSE, cbarg |-> "None", pre |-> NoPre,
     drag |-> <<>>, preview |-> <<>>]

\* a thread that is not inside process_screenshot.  Of a detection cycle:
\* stage, the result ret, the recorded boxes, the zone list zones as it was
\* when the cycle began; and while detect_smartphone is in its loop over the
\* boxes: the threshold thr_call handed to the model, the index i of the next
\* box, the locals loc, whether the zone list it was given is still
\* self.exclusion_zones (live) or what that list holds if it is not (held),
\* and the thresholds and zone lists read for the boxes so far
NoCycle ==
    [stage |-> "none", ret |-> FALSE, boxes |-> <<>>, zones |-> <<>>,
     thr_call |-> 0, i |-> 1,
     loc |-> [smartphones_found |-> FALSE, smartphones_outside_exclusion |-> FALSE,
              max_conf |-> 0, detected_boxes |-> <<>>],
     live |-> FALSE, held |-> <<>>, thr_read |-> <<>>, zones_read |-> <<>>]

(***************************************************************************)
(* SmartphoneDetector.detect_smartphone                                    *)
(***************************************************************************)
\* int(v) of a non-negative float given in half pixels
ToInt(h) == h \div 2

\* x1, y1, x2, y2 = map(int, box.xyxy[0])
IntBox(xyxy) == <<ToInt(xyxy[1]), ToInt(xyxy[2]), ToInt(xyxy[3]), ToInt(xyxy[4])>>

\* (variant: the upper bounds exclusive)
CenterInZoneStrictUpper(b, z) ==
    /\ 2 * z[1] <= b[1] + b[3] /\ b[1] + b[3] < 2 * z[3]
    /\ 2 * z[2] <= b[2] + b[4] /\ b[2] + b[4] < 2 * z[4]

\* ex_x1 <= center_x <= ex_x2 and ex_y1 <= center_y <= ex_y2, with
\* center_x = (x1 + x2) / 2 and center_y = (y1 + y2) / 2
CenterInZone(b, z) ==
    /\ 2 * z[1] <= b[1] + b[3] /\ b[1] + b[3] <= 2 * z[3]
    /\ 2 * z[2] <= b[2] + b[4] /\ b[2] + b[4] <= 2 * z[4]

\* for ex_x1, ex_y1, ex_x2, ex_y2 in exclusion_zones: if (...): in_exclusion_zone = True; break
RECURSIVE ZoneLoop(_, _, _)
ZoneLoop(b, zones, i) ==
    IF i > Len(zones) THEN FALSE
    ELSE IF CenterInZone(b, zones[i]) THEN TRUE
    ELSE ZoneLoop(b, zones, i + 1)

\* in_exclusion_zone = False; if exclusion_zones: ...
\* (None and the empty list are both falsy: a zone list <<>> stands for either)
InExclusionZone(b, zones) ==
    IF Len(zones) > 0 THEN ZoneLoop(b, zones, 1) ELSE FALSE

\* (variant: a confidence equal to the threshold passes)
SurvivesAtOrAbove(conf, thr) == conf >= thr

\* if conf > self.confidence_threshold
Survives(conf, thr) == conf > thr

\* the locals of detect_smartphone before the loop over the boxes
InitLocals ==
    [smartphones_found |-> FALSE, smartphones_outside_exclusion |-> FALSE,
     max_conf |-> 0, detected_boxes |-> <<>>]

\* (variant: excluded detections are left out of the maximum)
TrackMaxOutsideOnly(max_conf, conf, in_zone) ==
    IF ~in_zone /\ conf > max_conf THEN conf ELSE max_conf

\* if conf > max_conf: max_conf = conf
TrackMax(max_conf, conf, in_zone) ==
    IF conf > max_conf THEN conf ELSE max_conf

\* (variant: every surviving detection counts as outside)
MarkOutsideAlways(outside, in_zone) == TRUE

\* if not in_exclusion_zone: smartphones_outside_exclusion = True
MarkOutside(outside, in_zone) == IF ~in_zone THEN TRUE ELSE outside

\* one iteration of `for box in boxes`, reading the threshold thr and the
\* zone list zones
BoxStep(loc, d, thr, zones) ==
    IF Survives(d.conf, thr)
    THEN LET b == IntBox(d.xyxy)
             in_zone == InExclusionZone(b, zones)
         IN [smartphones_found |-> TRUE,
             smartphones_outside_exclusion |->
                 MarkOutside(loc.smartphones_outside_exclusion, in_zone),
             max_conf |-> TrackMax(loc.max_conf, d.conf, in_zone),
             detected_boxes |->
                 Append(loc.detected_boxes,
                        <<b[1], b[2], b[3], b[4], d.conf, d.cls, in_zone>>)]
    ELSE loc

RECURSIVE BoxLoop(_, _, _, _, _)
BoxLoop(loc, raw, i, thr, zones) ==
    IF i > Len(raw) THEN loc
    ELSE BoxLoop(BoxStep(loc, raw[i], thr, zones), raw, i + 1, thr, zones)

\* the locals of detect_smartphone after the loop, for the detections raw
\* of the image, the zone list zones and the threshold as it is now
Locals(raw, zones) == BoxLoop(InitLocals, raw, 1, confidence_threshold, zones)

\* self.last_confidence after the call:
\* if smartphones_found: self.last_confidence = max_conf
StoreConfidence(loc, prev) == IF loc.smartphones_found THEN loc.max_conf ELSE prev

\* self.smartphone_detected = smartphones_found;
\* self.last_detections = detected_boxes; if smartphones_found: ...
store_results(loc) ==
    /\ smartphone_detected' = loc.smartphones_found
    /\ last_detections' = loc.detected_boxes
    /\ last_confidence' = StoreConfidence(loc, last_confidence)
    /\ UNCHANGED confidence_threshold

\* detect_smartphone(image, exclusion_zones) from the call of the model to
\* the return: what it writes to the detector; it returns
\* Locals(raw, zones).smartphones_outside_exclusion
detect_smartphone(raw, zones) == store_results(Locals(raw, zones))

(***************************************************************************)
(* SmartphoneDetector.set_confidence_threshold                             *)
(***************************************************************************)
\* (variant: no range check)
ValidThresholdAny(value) == TRUE

\* if 0 <= value <= 1
ValidThreshold(value) == 0 <= value /\ value <= 10

\* it returns ValidThreshold(value)
set_confidence_threshold(value) ==
    /\ confidence_threshold' =
           IF ValidThreshold(value) THEN value ELSE confidence_threshold
    /\ UNCHANGED <<smartphone_detected, last_confidence, last_detections>>

(***************************************************************************)
(* Initial values.                                                         *)
(***************************************************************************)
\* SmartphoneDetector.__init__
InitDet ==
    /\ confidence_threshold = DefaultThreshold
    /\ smartphone_detected = FALSE
    /\ last_confidence = 0
    /\ last_detections = <<>>

\* ScreenCapture.__init__; no thread exists
InitCap ==
    /\ _running = FALSE
    /\ _capture_thread = 0
    /\ _callback = "None"
    /\ capture_interval = DefaultInterval
    /\ pc = [t \in Threads |-> "idle"]
    /\ cb = [t \in Threads |-> "None"]
    /\ img = [t \in Threads |-> <<>>]
    /\ ps = [t \in Threads |-> NoCycle]
    /\ ui_pc = "idle"

\* SmartphoneMonitorGUI.__init__, before load_exclusion_zones
InitGui ==
    /\ is_monitoring = FALSE
    /\ notification_shown = FALSE
    /\ notification_window = "none"
    /\ notification_tabs = <<>>
    /\ tab_count = 0
    /\ is_selecting_zone = FALSE
    /\ current_image = FALSE
    /\ preview = ScreenPreview

(***************************************************************************)
(* The detector on its own: one caller holds an image and a zone list and  *)
(* calls detect_smartphone and set_confidence_threshold one after the      *)
(* other.                                                                  *)
(***************************************************************************)
InitDetector ==
    /\ image \in RawInputs
    /\ exclusion_zones \in ZoneLists
    /\ InitDet
    /\ InitCap
    /\ InitGui
    /\ last_call = NoCall

DetectSmartphone ==
    /\ detect_smartphone(image, exclusion_zones)
    /\ last_call' =
           [NoCall EXCEPT !.op = "detect", !.raw = image, !.zones = exclusion_zones,
                          !.thr = confidence_threshold,
                          !.prev_confidence = last_confidence,
                          !.ret = Locals(image, exclusion_zones).smartphones_outside_exclusion]
    /\ UNCHANGED <<capVars, ps, guiVars, selVars, image>>

SetConfidenceThreshold ==
    /\ \E value \in ThresholdInputs :
           /\ set_confidence_threshold(value)
           /\ last_call' = [NoCall EXCEPT !.op = "set", !.arg = value,
                                          !.thr = confidence_threshold,
                                          !.ret = ValidThreshold(value)]
    /\ UNCHANGED <<capVars, ps, guiVars, selVars, image>>

NextDetector ==
    \/ DetectSmartphone
    \/ SetConfidenceThreshold

SpecDetector == InitDetector /\ [][NextDetector]_vars

(***************************************************************************)
(* ScreenCapture, as called from the consumer context                      *)
(***************************************************************************)
Alive == { t \in Threads : pc[t] # "idle" }

\* threading.Thread(target=self._capture_loop): the new thread object
NewThread ==
    CHOOSE t \in Threads : pc[t] = "idle" /\ \A u \in Threads : pc[u] = "idle" => t <= u

\* (variant: a new thread first sleeps an interval)
FirstStepSleep == "sleep"

\* self._capture_thread.start(): the thread enters _capture_loop at
\* `while self._running`
FirstStep == "loop"

\* (variant: no test of the running flag)
AlreadyRunningNever == FALSE

\* if self._running: return False
AlreadyRunning == _running

\* it returns ~AlreadyRunning
start_capture(callback) ==
    /\ ui_pc = "idle"
    /\ IF AlreadyRunning
       THEN UNCHANGED capVars
       ELSE /\ \E t \in Threads : pc[t] = "idle"
            /\ _running' = TRUE
            /\ _callback' = callback
            /\ _capture_thread' = NewThread
            /\ pc' = [pc EXCEPT ![NewThread] = FirstStep]
            /\ UNCHANGED <<capture_interval, cb, img, ui_pc>>

\* stop_capture up to the join: self._running = False;
\* if self._capture_thread: self._capture_thread.join(timeout=2.0)
stop_capture ==
    /\ ui_pc = "idle"
    /\ _running' = FALSE
    /\ ui_pc' = IF _capture_thread # 0 THEN "join" ELSE "idle"
    /\ UNCHANGED <<_capture_thread, _callback, capture_interval, pc, cb, img>>

\* (variant: join() without a timeout)
OutlastsTimeoutNever(p) == FALSE

\* a place of the loop where a thread can stay longer than the join timeout:
\* the screen grab and the callback take as long as they take, and the
\* interval sleep can be longer than 2 s; the fallback sleep cannot
OutlastsTimeout(p) ==
    \/ p \in {"grab", "callback"}
    \/ p = "long_sleep"
    \/ p = "err_sleep" /\ FallbackDelay > JoinTimeout

\* self._capture_thread.join(timeout=2.0) returns, because the thread has
\* finished or because the timeout has expired; self._capture_thread = None;
\* return True
join_returns ==
    /\ ui_pc = "join"
    /\ \/ pc[_capture_thread] = "idle"
       \/ OutlastsTimeout(pc[_capture_thread])
    /\ _capture_thread' = 0
    /\ ui_pc' = "idle"
    /\ UNCHANGED <<_running, _callback, capture_interval, pc, cb, img>>

\* (variant: the interval is stored as given)
ClampIntervalNone(interval) == interval

\* max(0.1, float(interval))
ClampInterval(interval) == IF interval > MinInterval THEN interval ELSE MinInterval

\* (variant: an interval below 0.1 s is answered with False)
IntervalAcceptedInRange(interval) == interval >= MinInterval

\* return True
IntervalAccepted(interval) == TRUE

\* self.capture_interval = max(0.1, float(interval)); it returns
\* IntervalAccepted(interval)
set_capture_interval(interval) ==
    /\ ui_pc = "idle"
    /\ capture_interval' = ClampInterval(interval)
    /\ UNCHANGED <<_running, _capture_thread, _callback, pc, cb, img, ui_pc>>

(***************************************************************************)
(* ScreenCapture._capture_loop, run by thread t                            *)
(***************************************************************************)
\* while self._running:
loop_test(t) ==
    /\ pc[t] = "loop"
    /\ pc' = [pc EXCEPT ![t] = IF _running THEN "grab" ELSE "idle"]
    /\ UNCHANGED <<_running, _capture_thread, _callback, capture_interval, cb, img, ui_pc>>

\* screenshot = sct.grab(monitor); img = np.array(screenshot);
\* self.last_screenshot = img
grab_returns(t, screenshot) ==
    /\ pc[t] = "grab"
    /\ pc' = [pc EXCEPT ![t] = "call"]
    /\ img' = [img EXCEPT ![t] = screenshot]
    /\ UNCHANGED <<_running, _capture_thread, _callback, capture_interval, cb, ui_pc>>

\* (variant: the failure ends the thread)
AfterGrabFailureExit == "idle"

\* where a failure inside the try block takes the thread:
\* except Exception as e: print(...); time.sleep(1)
AfterGrabFailure == "err_sleep"

\* sct.grab raises: except Exception: print(...); time.sleep(1)
grab_raises(t) ==
    /\ pc[t] = "grab"
    /\ pc' = [pc EXCEPT ![t] = AfterGrabFailure]
    /\ UNCHANGED <<_running, _capture_thread, _callback, capture_interval, cb, img, ui_pc>>

\* sleep_time = max(0, self.capture_interval - elapsed); time.sleep(sleep_time):
\* the sleep is at most the interval, and longer than the join timeout only
\* when the interval is
SleepKinds ==
    {"sleep"} \cup (IF capture_interval > JoinTimeout THEN {"long_sleep"} ELSE {})

\* if self._callback: self._callback(img)
call_callback(t) ==
    /\ pc[t] = "call"
    /\ IF _callback = "None"
       THEN /\ \E k \in SleepKinds : pc' = [pc EXCEPT ![t] = k]
            /\ img' = [img EXCEPT ![t] = <<>>]
            /\ UNCHANGED cb
       ELSE /\ pc' = [pc EXCEPT ![t] = "callback"]
            /\ cb' = [cb EXCEPT ![t] = _callback]
            /\ UNCHANGED img
    /\ UNCHANGED <<_running, _capture_thread, _callback, capture_interval, ui_pc>>

\* the callback returns; the loop goes to its interval sleep
callback_returns(t) ==
    /\ pc[t] = "callback"
    /\ \E k \in SleepKinds : pc' = [pc EXCEPT ![t] = k]
    /\ cb' = [cb EXCEPT ![t] = "None"]
    /\ img' = [img EXCEPT ![t] = <<>>]
    /\ UNCHANGED <<_running, _capture_thread, _callback, capture_interval, ui_pc>>

\* the callback raises: except Exception: print(...); time.sleep(1)
callback_raises(t) ==
    /\ pc[t] = "callback"
    /\ pc' = [pc EXCEPT ![t] = "err_sleep"]
    /\ cb' = [cb EXCEPT ![t] = "None"]
    /\ img' = [img EXCEPT ![t] = <<>>]
    /\ UNCHANGED <<_running, _capture_thread, _callback, capture_interval, ui_pc>>

\* time.sleep returns
wake(t) ==
    /\ pc[t] \in {"sleep", "long_sleep", "err_sleep"}
    /\ pc' = [pc EXCEPT ![t] = "loop"]
    /\ UNCHANGED <<_running, _capture_thread, _callback, capture_interval, cb, img, ui_pc>>

(***************************************************************************)
(* The scheduler on its own: a consumer context calls start_capture,       *)
(* stop_capture and set_capture_interval with callbacks of its own.        *)
(***************************************************************************)
InitCapture ==
    /\ image = <<>>
    /\ exclusion_zones = <<>>
    /\ InitDet
    /\ InitCap
    /\ InitGui
    /\ last_call = NoCall

\* what a call of start_capture finds
Pre ==
    [running |-> _running, callback |-> _callback, thread |-> _capture_thread,
     alive |-> Alive, interval |-> capture_interval]

StartCapture ==
    /\ \E callback \in CallbackValues :
           /\ start_capture(callback)
           /\ last_call' = [NoCall EXCEPT !.op = "start_capture", !.cbarg = callback,
                                          !.ret = ~AlreadyRunning, !.pre = Pre]
    /\ UNCHANGED <<detVars, ps, guiVars, selVars, image>>

StopCapture ==
    /\ stop_capture
    /\ last_call' = [NoCall EXCEPT !.op = "stop_capture", !.ret = (_capture_thread = 0)]
    /\ UNCHANGED <<detVars, ps, guiVars, selVars, image>>

JoinReturns ==
    /\ join_returns
    /\ last_call' = [NoCall EXCEPT !.op = "stop_capture", !.ret = TRUE]
    /\ UNCHANGED <<detVars, ps, guiVars, selVars, image>>

SetCaptureInterval ==
    /\ \E interval \in IntervalInputs :
           /\ set_capture_interval(interval)
           /\ last_call' = [NoCall EXCEPT !.op = "set_capture_interval",
                                          !.arg = interval, !.pre = Pre,
                                          !.ret = IntervalAccepted(interval)]
    /\ UNCHANGED <<detVars, ps, guiVars, selVars, image>>

LoopTest(t) == loop_test(t) /\ UNCHANGED <<detVars, ps, guiVars, selVars, image, last_call>>

GrabReturns(t) ==
    grab_returns(t, <<>>) /\ UNCHANGED <<detVars, ps, guiVars, selVars, image, last_call>>

GrabRaises(t) == grab_raises(t) /\ UNCHANGED <<detVars, ps, guiVars, selVars, image, last_call>>

CallCallback(t) == call_callback(t) /\ UNCHANGED <<detVars, ps, guiVars, selVars, image, last_call>>

CallbackReturns(t) ==
    callback_returns(t) /\ UNCHANGED <<detVars, ps, guiVars, selVars, image, last_call>>

CallbackRaises(t) ==
    callback_raises(t) /\ UNCHANGED <<detVars, ps, guiVars, selVars, image, last_call>>

Wake(t) == wake(t) /\ UNCHANGED <<detVars, ps, guiVars, selVars, image, last_call>>

NextCapture ==
    \/ StartCapture
    \/ StopCapture
    \/ JoinReturns
    \/ SetCaptureInterval
    \/ \E t \in Threads : LoopTest(t)
    \/ \E t \in Threads : GrabReturns(t)
    \/ \E t \in Threads : GrabRaises(t)
    \/ \E t \in Threads : CallCallback(t)
    \/ \E t \in Threads : CallbackReturns(t)
    \/ \E t \in Threads : CallbackRaises(t)
    \/ \E t \in Threads : Wake(t)

SpecCapture == InitCapture /\ [][NextCapture]_vars

\* the scheduling: a wait on the consumer context ends when it can, and a
\* thread takes the steps that need no one else; the screen grab and the
\* callback may never return
FairCapture ==
    /\ WF_vars(JoinReturns)
    /\ \A t \in Threads :
           WF_vars(LoopTest(t)) /\ WF_vars(CallCallback(t)) /\ WF_vars(Wake(t))

SpecCaptureFair == SpecCapture /\ FairCapture

(***************************************************************************)
(* SmartphoneMonitorGUI: monitoring control, on the UI context             *)
(***************************************************************************)
\* (variant: start_monitoring goes ahead whatever the flag says)
AlreadyMonitoringNever == FALSE

\* if self.is_monitoring or not self.detector: return
AlreadyMonitoring == is_monitoring

\* start_monitoring; the detector is present
start_monitoring ==
    /\ ui_pc = "idle"
    /\ IF AlreadyMonitoring
       THEN UNCHANGED <<capVars, is_monitoring, notification_shown>>
       ELSE /\ is_monitoring' = TRUE
            /\ notification_shown' = FALSE
            /\ start_capture("process_screenshot")

\* (variant: stopping discards the alerts)
stop_alerts_discard ==
    /\ notification_window' = IF notification_window = "open" THEN "destroyed"
                              ELSE notification_window
    /\ notification_tabs' = <<>>
    /\ UNCHANGED tab_count

\* what stop_monitoring does with the alert window: if it exists, a message
\* box saying that all detection alerts remain open
stop_alerts == UNCHANGED <<notification_window, notification_tabs, tab_count>>

\* stop_monitoring up to the join inside stop_capture
stop_monitoring ==
    /\ ui_pc = "idle"
    /\ IF ~is_monitoring
       THEN UNCHANGED <<capVars, is_monitoring, notification_window, notification_tabs,
                        tab_count>>
       ELSE /\ is_monitoring' = FALSE
            /\ stop_capture
            /\ stop_alerts

\* update_threshold: self.detector.set_confidence_threshold(value) with the
\* slider's value
update_threshold(value) ==
    /\ ui_pc = "idle"
    /\ set_confidence_threshold(value)

\* clear_exclusion_zones: if self.is_selecting_zone:
\* self.cancel_exclusion_selection(); self.exclusion_zones = [], a new list:
\* a detection that was given the old list keeps it, with what it holds
clear_exclusion_zones ==
    /\ ui_pc = "idle"
    /\ is_selecting_zone' = FALSE
    /\ exclusion_zones' = <<>>
    /\ ps' = [t \in Threads |->
                 IF ps[t].live
                 THEN [ps[t] EXCEPT !.live = FALSE, !.held = exclusion_zones]
                 ELSE ps[t]]

(***************************************************************************)
(* SmartphoneMonitorGUI: the alert window                                  *)
(***************************************************************************)
\* if not self.notification_window or not self.notification_window.winfo_exists()
NoAlertWindow == notification_window # "open"

\* (variant: the counter is not advanced once it is positive)
NextTabIdFrozen(count) == IF count = 0 THEN 1 ELSE count

\* self.tab_count += 1; current_tab_id = self.tab_count
NextTabId(count) == count + 1

\* (variant: the counter goes on from the number of open tabs)
TabCountFromOpenTabs == IF NoAlertWindow THEN 0 ELSE Len(notification_tabs)

\* the counter show_notification goes on from: self.tab_count = 0 where the
\* window is created, self.tab_count as it stands otherwise
TabCountOnEntry == IF NoAlertWindow THEN 0 ELSE tab_count

\* show_notification: a new window and notebook when there is none, with
\* self.tab_count = 0; then self.tab_count += 1 and a new tab
show_notification ==
    LET count == TabCountOnEntry
        tabs == IF NoAlertWindow THEN <<>> ELSE notification_tabs
    IN /\ count < MaxAlerts
       /\ notification_window' = "open"
       /\ tab_count' = NextTabId(count)
       /\ notification_tabs' = Append(tabs, NextTabId(count))

RemoveAt(s, i) == [k \in 1..(Len(s) - 1) |-> IF k < i THEN s[k] ELSE s[k + 1]]

\* close_notification_tab(tab) for the i-th tab: forget the tab; if no tab
\* is left, destroy the window and set self.notification_window = None
close_notification_tab(i) ==
    /\ ui_pc = "idle"
    /\ notification_window = "open"
    /\ i \in 1..Len(notification_tabs)
    /\ notification_tabs' = RemoveAt(notification_tabs, i)
    /\ notification_window' = IF Len(notification_tabs) = 1 THEN "none" ELSE "open"
    /\ UNCHANGED <<tab_count, notification_shown>>

\* the "Close All Tabs" button: self.notification_window.destroy()
close_all_tabs ==
    /\ ui_pc = "idle"
    /\ notification_window = "open"
    /\ notification_window' = "destroyed"
    /\ notification_tabs' = <<>>
    /\ UNCHANGED <<tab_count, notification_shown>>

(***************************************************************************)
(* SmartphoneMonitorGUI.process_screenshot, run by thread t as the         *)
(* callback of the capture loop                                            *)
(***************************************************************************)
InProcessScreenshot(t, stage) ==
    pc[t] = "callback" /\ cb[t] = "process_screenshot" /\ ps[t].stage = stage

\* if not self.is_monitoring or not self.detector: return
ps_enter(t) ==
    /\ InProcessScreenshot(t, "none")
    /\ IF is_monitoring
       THEN /\ ps' = [ps EXCEPT ![t] = [NoCycle EXCEPT !.stage = "detect"]]
            /\ UNCHANGED capVars
       ELSE /\ callback_returns(t)
            /\ UNCHANGED ps

\* exclusion_zones=self.exclusion_zones if self.exclusion_zones else None
ZonesArgument == exclusion_zones

\* smartphones_detected, result_image = self.detector.detect_smartphone(...);
\* self.current_image = result_image; with the detection taken as one step
ps_detect(t) ==
    /\ InProcessScreenshot(t, "detect")
    /\ detect_smartphone(img[t], ZonesArgument)
    /\ ps' = [ps EXCEPT ![t] =
                 [NoCycle EXCEPT
                    !.stage = "outcome",
                    !.ret = Locals(img[t], ZonesArgument).smartphones_outside_exclusion,
                    !.boxes = Locals(img[t], ZonesArgument).detected_boxes,
                    !.zones = ZonesArgument]]
    /\ current_image' = TRUE
    /\ UNCHANGED capVars

\* the detection raises inside the try block: control is in
\* except Exception as e
ps_detect_raises(t) ==
    /\ InProcessScreenshot(t, "detect")
    /\ ps' = [ps EXCEPT ![t] = [NoCycle EXCEPT !.stage = "failed"]]
    /\ UNCHANGED capVars

\* (variant: the failure is raised again into the capture loop)
failure_escapes(t) == callback_raises(t)

\* the except block ends and process_screenshot returns normally
failure_caught(t) == callback_returns(t)

\* self.log_message(f"Error during detection: {e}"), then the return
ps_failure_logged(t) ==
    /\ InProcessScreenshot(t, "failed")
    /\ failure_caught(t)
    /\ ps' = [ps EXCEPT ![t] = NoCycle]

\* (variant: alert whenever the detector has seen a smartphone)
ShouldAlertIfDetected(smartphones_detected) == smartphone_detected

\* (variant: no new alert while the latch is set)
ShouldAlertOnce(smartphones_detected) == smartphones_detected /\ ~notification_shown

\* if smartphones_detected:
ShouldAlert(smartphones_detected) == smartphones_detected

\* (variant: a cycle without an actionable detection resets the latch)
no_alert_reset ==
    /\ notification_shown' = FALSE
    /\ UNCHANGED <<notification_window, notification_tabs, tab_count>>

\* elif not smartphones_detected and self.notification_shown:
\*     self.log_message(...): nothing but a log line
no_alert == UNCHANGED alertVars

\* if smartphones_detected: self.show_notification(detection_info);
\* self.notification_shown = True; elif ...: self.log_message(...)
ps_outcome(t) ==
    /\ InProcessScreenshot(t, "outcome")
    /\ IF ShouldAlert(ps[t].ret)
       THEN /\ show_notification
            /\ notification_shown' = TRUE
       ELSE no_alert
    /\ callback_returns(t)
    /\ ps' = [ps EXCEPT ![t] = NoCycle]

(***************************************************************************)
(* The GUI driving the scheduler and the detector.                         *)
(***************************************************************************)
\* the state after SmartphoneMonitorGUI.__init__, which loads the zones of
\* excluded_areas.json
Init ==
    /\ InitDet
    /\ InitCap
    /\ InitGui
    /\ exclusion_zones \in FileZoneLists
    /\ image = <<>>
    /\ last_call = NoCall

StartMonitoring ==
    /\ start_monitoring
    /\ UNCHANGED <<detVars, ps, notification_window, notification_tabs, tab_count,
                   exclusion_zones, selVars, image, last_call>>

StopMonitoring ==
    /\ stop_monitoring
    /\ UNCHANGED <<detVars, ps, notification_shown, exclusion_zones, selVars, image, last_call>>

StopJoinReturns ==
    /\ join_returns
    /\ UNCHANGED <<detVars, ps, guiVars, selVars, image, last_call>>

UpdateThreshold ==
    /\ \E value \in SliderThresholds : update_threshold(value)
    /\ UNCHANGED <<capVars, ps, guiVars, selVars, image, last_call>>

ClearExclusionZones ==
    /\ clear_exclusion_zones
    /\ UNCHANGED <<detVars, capVars, is_monitoring, alertVars, current_image, preview, image,
                   last_call>>

CloseNotificationTab ==
    /\ \E i \in 1..MaxAlerts : close_notification_tab(i)
    /\ UNCHANGED <<detVars, capVars, ps, is_monitoring, exclusion_zones, selVars, image, last_call>>

CloseAllTabs ==
    /\ close_all_tabs
    /\ UNCHANGED <<detVars, capVars, ps, is_monitoring, exclusion_zones, selVars, image, last_call>>

GrabScreen(t) ==
    /\ \E screenshot \in GrabImages : grab_returns(t, screenshot)
    /\ UNCHANGED <<detVars, ps, guiVars, selVars, image, last_call>>

PsEnter(t) == ps_enter(t) /\ UNCHANGED <<detVars, guiVars, selVars, image, last_call>>

PsDetect(t) == ps_detect(t) /\ UNCHANGED <<guiVars, is_selecting_zone, preview, image, last_call>>

PsDetectRaises(t) == ps_detect_raises(t) /\ UNCHANGED <<detVars, guiVars, selVars, image, last_call>>

PsFailureLogged(t) ==
    ps_failure_logged(t) /\ UNCHANGED <<detVars, guiVars, selVars, image, last_call>>

PsOutcome(t) ==
    ps_outcome(t) /\ UNCHANGED <<detVars, is_monitoring, exclusion_zones, selVars, image, last_call>>

Next ==
    \/ StartMonitoring
    \/ StopMonitoring
    \/ StopJoinReturns
    \/ UpdateThreshold
    \/ ClearExclusionZones
    \/ CloseNotificationTab
    \/ CloseAllTabs
    \/ \E t \in Threads : LoopTest(t)
    \/ \E t \in Threads : GrabScreen(t)
    \/ \E t \in Threads : GrabRaises(t)
    \/ \E t \in Threads : CallCallback(t)
    \/ \E t \in Threads : PsEnter(t)
    \/ \E t \in Threads : PsDetect(t)
    \/ \E t \in Threads : PsDetectRaises(t)
    \/ \E t \in Threads : PsFailureLogged(t)
    \/ \E t \in Threads : PsOutcome(t)
    \/ \E t \in Threads : Wake(t)

Spec == Init /\ [][Next]_vars

(***************************************************************************)
(* SmartphoneMonitorGUI: selection of an exclusion zone, on the UI context *)
(***************************************************************************)
\* start_exclusion_selection: refused while monitoring; otherwise it toggles
\* the selection mode.  With no current image it calls
\* self.screen_capture.capture_screen(), which ScreenCapture does not have:
\* the AttributeError is caught and current_image stays None
start_exclusion_selection ==
    /\ ui_pc = "idle"
    /\ is_selecting_zone' = IF is_monitoring THEN is_selecting_zone
                            ELSE ~is_selecting_zone
    /\ UNCHANGED current_image

\* on_mouse_up at the end of a drag that gives the zone `zone` of the frame:
\* if self.current_image is not None: self.exclusion_zones.append(zone), in
\* the list object itself; then cancel_exclusion_selection()
on_mouse_up(zone) ==
    /\ ui_pc = "idle"
    /\ is_selecting_zone
    /\ current_image => Len(exclusion_zones) < MaxZones
    /\ exclusion_zones' = IF current_image THEN Append(exclusion_zones, zone)
                          ELSE exclusion_zones
    /\ is_selecting_zone' = FALSE
    /\ UNCHANGED current_image

(***************************************************************************)
(* detect_smartphone inside process_screenshot, box by box: the UI context *)
(* runs between the steps of the background thread                         *)
(***************************************************************************)
\* the zone list the detection of cycle c iterates: the list object it was
\* given, which is self.exclusion_zones until that is replaced
ZoneView(c) == IF c.live THEN exclusion_zones ELSE c.held

\* exclusion_zones=self.exclusion_zones if self.exclusion_zones else None;
\* results = self.model(image, conf=self.confidence_threshold)
cycle_call(t) ==
    /\ InProcessScreenshot(t, "detect")
    /\ ps' = [ps EXCEPT ![t] =
                 [NoCycle EXCEPT !.stage = "boxes",
                                 !.thr_call = confidence_threshold,
                                 !.zones = ZonesArgument,
                                 !.live = (exclusion_zones # <<>>)]]
    /\ UNCHANGED <<capVars, detVars, current_image>>

\* one iteration of `for box in boxes`:
\* if conf > self.confidence_threshold: ... for ... in exclusion_zones: ...
cycle_box(t) ==
    LET c == ps[t]
        d == img[t][c.i]
        survives == Survives(d.conf, confidence_threshold)
    IN /\ InProcessScreenshot(t, "boxes")
       /\ c.i <= Len(img[t])
       /\ ps' = [ps EXCEPT ![t] =
                    [c EXCEPT !.i = c.i + 1,
                              !.loc = BoxStep(c.loc, d, confidence_threshold, ZoneView(c)),
                              !.thr_read = Append(c.thr_read, confidence_threshold),
                              !.zones_read = IF survives
                                             THEN Append(c.zones_read, ZoneView(c))
                                             ELSE c.zones_read]]
       /\ UNCHANGED <<capVars, detVars, current_image>>

\* after the loop: the detector's fields are written and detect_smartphone
\* returns; self.current_image = result_image
cycle_return(t) ==
    LET c == ps[t]
    IN /\ InProcessScreenshot(t, "boxes")
       /\ c.i > Len(img[t])
       /\ store_results(c.loc)
       /\ ps' = [ps EXCEPT ![t] =
                    [c EXCEPT !.stage = "outcome",
                              !.ret = c.loc.smartphones_outside_exclusion,
                              !.boxes = c.loc.detected_boxes,
                              !.live = FALSE, !.held = <<>>]]
       /\ current_image' = TRUE
       /\ UNCHANGED capVars

(***************************************************************************)
(* The GUI with the detection taken box by box and the zone selection.     *)
(***************************************************************************)
StartExclusionSelection ==
    /\ start_exclusion_selection
    /\ UNCHANGED <<detVars, capVars, ps, guiVars, preview, image, last_call>>

OnMouseUp ==
    /\ \E zone \in ZoneValues : on_mouse_up(zone)
    /\ UNCHANGED <<detVars, capVars, ps, is_monitoring, alertVars, preview, image,
                   last_call>>

CycleCall(t) == cycle_call(t) /\ UNCHANGED <<guiVars, is_selecting_zone, preview, image, last_call>>

CycleBox(t) == cycle_box(t) /\ UNCHANGED <<guiVars, is_selecting_zone, preview, image, last_call>>

CycleReturn(t) ==
    cycle_return(t) /\ UNCHANGED <<guiVars, is_selecting_zone, preview, image, last_call>>

NextCycle ==
    \/ StartMonitoring
    \/ UpdateThreshold
    \/ ClearExclusionZones
    \/ StartExclusionSelection
    \/ OnMouseUp
    \/ CloseAllTabs
    \/ \E t \in Threads : LoopTest(t)
    \/ \E t \in Threads : GrabScreen(t)
    \/ \E t \in Threads : CallCallback(t)
    \/ \E t \in Threads : PsEnter(t)
    \/ \E t \in Threads : CycleCall(t)
    \/ \E t \in Threads : CycleBox(t)
    \/ \E t \in Threads : CycleReturn(t)
    \/ \E t \in Threads : PsOutcome(t)
    \/ \E t \in Threads : Wake(t)

SpecCycle == Init /\ [][NextCycle]_vars

(***************************************************************************)
(* SmartphoneMonitorGUI: the geometry of a zone drawn on the preview.      *)
(* scale = min(canvas_width / w, canvas_height / h) is kept as a fraction  *)
(* n / d, so that int() of a product or a quotient is an integer division. *)
(***************************************************************************)
Min(a, b) == IF a <= b THEN a ELSE b

Max(a, b) == IF a >= b THEN a ELSE b

\* scale_w = canvas_width / w; scale_h = canvas_height / h;
\* scale = min(scale_w, scale_h)
Scale(p) ==
    IF p.canvas_width * p.h <= p.canvas_height * p.w
    THEN [n |-> p.canvas_width, d |-> p.w]
    ELSE [n |-> p.canvas_height, d |-> p.h]

\* new_w = int(w * scale); new_h = int(h * scale)
new_w(p) == (p.w * Scale(p).n) \div Scale(p).d

new_h(p) == (p.h * Scale(p).n) \div Scale(p).d

\* x_offset = (canvas_width - new_w) // 2; y_offset = (canvas_height - new_h) // 2
x_offset(p) == (p.canvas_width - new_w(p)) \div 2

y_offset(p) == (p.canvas_height - new_h(p)) \div 2

\* (variant: no clamping to the image bounds)
ToFrameUnclamped(c, offset, scale, limit) == ((c - offset) * scale.d) \div scale.n

\* x1_scaled = (x1 - x_offset) / scale if x1 >= x_offset else 0;
\* x1_scaled = max(0, min(w, x1_scaled)); and int(...) when it is stored
ToFrame(c, offset, scale, limit) ==
    IF c >= offset
    THEN Max(0, Min(limit, ((c - offset) * scale.d) \div scale.n))
    ELSE 0

\* (variant: the two ends are kept as dragged)
AsDragged(a, b) == <<a, b>>

\* x1 = min(self.start_x, end_x); x2 = max(self.start_x, end_x), and
\* x1_final = min(x1_scaled, x2_scaled); x2_final = max(x1_scaled, x2_scaled)
Ordered(a, b) == <<Min(a, b), Max(a, b)>>

\* the rectangle of a drag from (sx, sy) to (ex, ey), in canvas coordinates
DragRectangle(sx, sy, ex, ey) ==
    <<Ordered(sx, ex)[1], Ordered(sy, ey)[1], Ordered(sx, ex)[2], Ordered(sy, ey)[2]>>

\* if abs(x2 - x1) < 20 or abs(y2 - y1) < 20
Abs(a) == IF a < 0 THEN -a ELSE a

TooSmall(r) == Abs(r[3] - r[1]) < MinDrag \/ Abs(r[4] - r[2]) < MinDrag

\* the zone on_mouse_up stores for the canvas rectangle r on the preview p
FrameZone(r, p) ==
    LET fx == Ordered(ToFrame(r[1], x_offset(p), Scale(p), p.w),
                      ToFrame(r[3], x_offset(p), Scale(p), p.w))
        fy == Ordered(ToFrame(r[2], y_offset(p), Scale(p), p.h),
                      ToFrame(r[4], y_offset(p), Scale(p), p.h))
    IN <<fx[1], fy[1], fx[2], fy[2]>>

\* calculate_scaled_exclusion_zones: x1_canvas = int(x1 * scale) + x_offset
ToCanvas(f, offset, scale) == (f * scale.n) \div scale.d + offset

\* the canvas rectangle calculate_scaled_exclusion_zones gives for zone z
ScaledZone(z, p) ==
    <<ToCanvas(z[1], x_offset(p), Scale(p)), ToCanvas(z[2], y_offset(p), Scale(p)),
      ToCanvas(z[3], x_offset(p), Scale(p)), ToCanvas(z[4], y_offset(p), Scale(p))>>

\* on_mouse_up at the end of a drag from (sx, sy) to (ex, ey): a selection
\* that is too small is refused and the selection mode goes on
on_mouse_up_drag(sx, sy, ex, ey) ==
    IF TooSmall(DragRectangle(sx, sy, ex, ey))
    THEN /\ ui_pc = "idle"
         /\ is_selecting_zone
         /\ UNCHANGED <<exclusion_zones, is_selecting_zone, current_image>>
    ELSE on_mouse_up(FrameZone(DragRectangle(sx, sy, ex, ey), preview))

\* load_external_screenshot of an image that gives the preview p: refused
\* while monitoring; self.current_image = img; update_preview_image(img);
\* self.start_exclusion_selection()
load_external_screenshot(p) ==
    /\ ui_pc = "idle"
    /\ IF is_monitoring
       THEN UNCHANGED <<current_image, preview, is_selecting_zone>>
       ELSE /\ current_image' = TRUE
            /\ preview' = p
            /\ is_selecting_zone' = ~is_selecting_zone

(***************************************************************************)
(* The zone editor on its own: images are loaded from files and zones are  *)
(* drawn and cleared while nothing is monitored.                           *)
(***************************************************************************)
InitGeometry ==
    /\ InitDet
    /\ InitCap
    /\ InitGui
    /\ exclusion_zones = <<>>
    /\ image = <<>>
    /\ last_call = NoCall

LoadExternalScreenshot ==
    /\ \E p \in LoadedPreviews : load_external_screenshot(p)
    /\ UNCHANGED <<detVars, capVars, ps, guiVars, image, last_call>>

OnMouseUpDrag ==
    /\ \E sx \in DragXs, sy \in DragYs, ex \in DragXs, ey \in DragYs :
           /\ on_mouse_up_drag(sx, sy, ex, ey)
           /\ last_call' =
                  [NoCall EXCEPT
                     !.op = "on_mouse_up", !.drag = <<sx, sy, ex, ey>>,
                     !.preview = preview,
                     !.ret = (current_image /\ ~TooSmall(DragRectangle(sx, sy, ex, ey))),
                     !.zones = <<FrameZone(DragRectangle(sx, sy, ex, ey), preview)>>]
    /\ UNCHANGED <<detVars, capVars, ps, is_monitoring, alertVars, preview, image>>

NextGeometry ==
    \/ LoadExternalScreenshot
    \/ StartExclusionSelection
    \/ OnMouseUpDrag
    \/ ClearExclusionZones

SpecGeometry == InitGeometry /\ [][NextGeometry]_vars

(***************************************************************************)
(* Properties of the detector.                                             *)
(***************************************************************************)
\* the detections of the last detect call that passed its threshold
SurvivorsOf(c) == { i \in 1..Len(c.raw) : c.raw[i].conf > c.thr }

\* the j-th survivor, in the order the capability returned them
NthSurvivor(c, j) ==
    CHOOSE i \in SurvivorsOf(c) : Cardinality({ k \in SurvivorsOf(c) : k <= i }) = j

\* twice the centre of a pixel box lies within twice the zone's bounds
CentreInside(x1, y1, x2, y2, z) ==
    /\ 2 * z[1] <= x1 + x2 /\ x1 + x2 <= 2 * z[3]
    /\ 2 * z[2] <= y1 + y2 /\ y1 + y2 <= 2 * z[4]

CentreInSomeZone(x1, y1, x2, y2, zs) ==
    \E k \in 1..Len(zs) : CentreInside(x1, y1, x2, y2, zs[k])

RawCentreInSomeZone(d, zs) ==
    LET b == IntBox(d.xyxy) IN CentreInSomeZone(b[1], b[2], b[3], b[4], zs)

\* C1: detect_smartphone returns actionable = true iff some detection that
\* passed the threshold has its centre outside every exclusion zone, and
\* last_detections holds every survivor, in order, each with its own
\* in-zone flag.
C1_ActionableIffSurvivorOutside ==
    last_call.op = "detect" =>
        LET c == last_call
            S == SurvivorsOf(c)
        IN /\ c.ret <=> \E i \in S : ~RawCentreInSomeZone(c.raw[i], c.zones)
           /\ Len(last_detections) = Cardinality(S)
           /\ \A j \in 1..Len(last_detections) :
                  LET d == c.raw[NthSurvivor(c, j)]
                      b == IntBox(d.xyxy)
                  IN last_detections[j] =
                         <<b[1], b[2], b[3], b[4], d.conf, d.cls,
                           RawCentreInSomeZone(d, c.zones)>>

\* C1 witness: a call with one survivor inside a zone and one outside every
\* zone has returned.
C1_Witness ==
    /\ last_call.op = "detect"
    /\ Len(last_detections) = 2
    /\ last_detections[1][7] /\ ~last_detections[2][7]
    /\ last_call.ret

\* C3: a detection whose confidence equals the threshold is left out: it is
\* not recorded, and a cycle in which no detection is strictly above the
\* threshold reports nothing detected and is not actionable.
C3_StrictThreshold ==
    last_call.op = "detect" =>
        LET c == last_call
            AtThr == { i \in 1..Len(c.raw) : c.raw[i].conf = c.thr }
            Above == { i \in 1..Len(c.raw) : c.raw[i].conf > c.thr }
        IN /\ \A j \in 1..Len(last_detections) : last_detections[j][5] > c.thr
           /\ Len(last_detections) = Cardinality(Above)
           /\ smartphone_detected <=> Above # {}
           /\ Above = {} => ~c.ret

\* C3 witness: a call whose detections all sit exactly at the threshold has
\* returned.
C3_Witness ==
    /\ last_call.op = "detect"
    /\ Len(last_call.raw) > 0
    /\ \A i \in 1..Len(last_call.raw) : last_call.raw[i].conf = last_call.thr
    /\ ~smartphone_detected

\* C4: a recorded detection is flagged in-exclusion-zone iff its box centre
\* lies within some zone of the list, bounds included, whatever the position
\* of that zone in the list.
C4_InZoneIffCentreInAnyZone ==
    last_call.op = "detect" =>
        \A j \in 1..Len(last_detections) :
            LET d == last_detections[j]
            IN d[7] <=> CentreInSomeZone(d[1], d[2], d[3], d[4], last_call.zones)

\* C4 witness: a recorded detection whose centre lies on the right edge
\* (cx = ex2) of the second zone of the list, and in no other zone, is
\* flagged.
C4_Witness ==
    /\ last_call.op = "detect"
    /\ Len(last_call.zones) = 2
    /\ \E j \in 1..Len(last_detections) :
           LET d == last_detections[j]
               zs == last_call.zones
           IN /\ d[1] + d[3] = 2 * zs[2][3]
              /\ ~CentreInside(d[1], d[2], d[3], d[4], zs[1])
              /\ d[7]

\* the largest confidence among the survivors of a call, 0 when there is none
MaxSurvivorConf(c) ==
    IF SurvivorsOf(c) = {} THEN 0
    ELSE CHOOSE m \in { c.raw[i].conf : i \in SurvivorsOf(c) } :
             \A i \in SurvivorsOf(c) : c.raw[i].conf <= m

\* C5 as claimed: after every detection cycle last_confidence is the maximum
\* confidence over that cycle's survivors.
C5_Original ==
    last_call.op = "detect" => last_confidence = MaxSurvivorConf(last_call)

\* C5: after a detection cycle with at least one survivor last_confidence is
\* the maximum confidence over that cycle's survivors, excluded ones
\* included; a cycle with no survivor leaves last_confidence as it was.
C5_MaxConfidence ==
    last_call.op = "detect" =>
        IF SurvivorsOf(last_call) # {}
        THEN last_confidence = MaxSurvivorConf(last_call)
        ELSE last_confidence = last_call.prev_confidence

\* C5 witness: a call whose most confident survivor is inside an exclusion
\* zone, with a less confident survivor outside, has returned.
C5_Witness ==
    /\ last_call.op = "detect"
    /\ Len(last_detections) = 2
    /\ \E j, k \in 1..2 :
           /\ last_detections[j][7] /\ ~last_detections[k][7]
           /\ last_detections[j][5] > last_detections[k][5]

\* C6: set_confidence_threshold(v) stores v and returns True when
\* 0 <= v <= 1, and otherwise keeps the threshold and returns False; the
\* threshold is always within [0, 1].
C6_ThresholdSetter ==
    /\ 0 <= confidence_threshold /\ confidence_threshold <= 10
    /\ last_call.op = "set" =>
           IF 0 <= last_call.arg /\ last_call.arg <= 10
           THEN confidence_threshold = last_call.arg /\ last_call.ret
           ELSE confidence_threshold = last_call.thr /\ ~last_call.ret

\* C6 witness: an out-of-range value has been refused while the threshold
\* was not the default one.
C6_Witness ==
    /\ last_call.op = "set"
    /\ last_call.arg \in {-1, 15}
    /\ confidence_threshold # DefaultThreshold

(***************************************************************************)
(* Properties of the capture scheduler.                                    *)
(***************************************************************************)
\* C7: at any moment at most one background thread is executing the
\* capture loop.
C7_AtMostOneLoopThread == Cardinality(Alive) <= 1

\* C8: frame callbacks run one at a time, and no frame is being acquired
\* while a callback is still in progress.
C8_OneFrameInFlight ==
    \A t, u \in Threads :
        (t # u /\ pc[t] = "callback") => pc[u] \notin {"callback", "grab"}

\* C9: stop_capture always returns, whatever the background loop is doing:
\* the wait for the thread ends, and on return the running flag is clear,
\* the thread reference is dropped and the result is True.
C9_StopReturns ==
    /\ [](last_call.op = "stop_capture" /\ ui_pc = "idle"
            => last_call.ret /\ ~_running /\ _capture_thread = 0)
    /\ (ui_pc = "join") ~> (ui_pc = "idle")

\* C9 witness: stop_capture has returned while a background thread is still
\* inside the screen grab.
C9_Witness ==
    /\ last_call.op = "stop_capture"
    /\ ui_pc = "idle"
    /\ \E t \in Threads : pc[t] = "grab"

\* C10: start_capture called while the scheduler is running returns False,
\* starts no thread and leaves the running flag, the registered callback and
\* the thread reference as they were.
C10_StartWhileRunning ==
    (last_call.op = "start_capture" /\ last_call.pre.running) =>
        /\ ~last_call.ret
        /\ _running
        /\ _callback = last_call.pre.callback
        /\ _capture_thread = last_call.pre.thread
        /\ Alive \subseteq last_call.pre.alive

\* C10 witness: a start_capture with another callback has been refused while
\* the first thread goes on.
C10_Witness ==
    /\ last_call.op = "start_capture"
    /\ last_call.pre.running
    /\ ~last_call.ret
    /\ last_call.cbarg # _callback
    /\ Alive # {}

\* C11: a failed screen grab never ends the capture loop: the thread goes to
\* the fallback sleep, then back to the loop test, and from there to another
\* grab while the running flag is set; a thread leaves the loop only at a
\* loop test that finds the running flag cleared.
C11_FailureNeverTerminates ==
    /\ [][\A t \in Threads :
            /\ (pc[t] = "grab" /\ pc'[t] \notin {"grab", "call"})
                   => pc'[t] = "err_sleep"
            /\ (pc[t] = "err_sleep" /\ pc'[t] # "err_sleep") => pc'[t] = "loop"
            /\ (pc[t] = "loop" /\ pc'[t] # "loop")
                   => pc'[t] = IF _running THEN "grab" ELSE "idle"
            /\ (pc[t] # "idle" /\ pc'[t] = "idle")
                   => (pc[t] = "loop" /\ ~_running)]_vars
    /\ \A t \in Threads :
           (pc[t] = "err_sleep") ~> (pc[t] = "grab" \/ pc[t] = "idle")

\* C11 witness: a grab has failed, the running flag is set and the thread is
\* in the fallback sleep.
C11_Witness == \E t \in Threads : pc[t] = "err_sleep" /\ _running

\* C20: the capture interval is never below 0.1 s, and after
\* set_capture_interval(v) it is the larger of v and 0.1 s.
C20_IntervalClamped ==
    /\ capture_interval >= MinInterval
    /\ last_call.op = "set_capture_interval" =>
           /\ last_call.ret
           /\ capture_interval >= last_call.arg
           /\ capture_interval \in {last_call.arg, MinInterval}

\* C20 witness: set_capture_interval(0) has been called while a thread is
\* in the capture loop, and the interval is 0.1 s.
C20_Witness ==
    /\ last_call.op = "set_capture_interval"
    /\ last_call.arg = 0
    /\ capture_interval = MinInterval
    /\ \E t \in Threads : pc[t] = "call"

\* C21 as stated: set_capture_interval with an interval below 0.1 s leaves
\* the stored interval as it was and returns a failure result.
C21_Original ==
    (last_call.op = "set_capture_interval" /\ last_call.arg < MinInterval) =>
        (~last_call.ret /\ capture_interval = last_call.pre.interval)

\* C21, amended: set_capture_interval with an interval below 0.1 s is not
\* rejected: it stores 0.1 s in place of the value and returns True.
C21_LowIntervalReplaced ==
    (last_call.op = "set_capture_interval" /\ last_call.arg < MinInterval) =>
        (last_call.ret /\ capture_interval = MinInterval)

\* C21 witness: set_capture_interval(0) was called with 5.0 s stored and
\* the interval is now 0.1 s.
C21_Witness ==
    /\ last_call.op = "set_capture_interval"
    /\ last_call.arg = 0
    /\ last_call.pre.interval = 50
    /\ last_call.ret
    /\ capture_interval = MinInterval

\* C23: a thread started by start_capture, also right after a stop_capture,
\* begins at the loop test and goes from there straight to its first grab;
\* every frame a thread has grabbed is handed to the registered callback
\* once, by the next step of that thread, and the thread grabs again only
\* after that call has ended and it has slept.
C23_RestartDeliversOnce ==
    [][\A t \in Threads :
          /\ (pc[t] = "idle" /\ pc'[t] # "idle")
                 => (pc'[t] = "loop" /\ _running' /\ _capture_thread' = t)
          /\ (pc[t] = "loop" /\ pc'[t] # "loop" /\ _running) => pc'[t] = "grab"
          /\ (pc[t] = "grab" /\ pc'[t] \notin {"grab", "err_sleep"}) => pc'[t] = "call"
          /\ (pc[t] = "call" /\ pc'[t] # "call" /\ _callback # "None")
                 => (pc'[t] = "callback" /\ cb'[t] = _callback /\ img'[t] = img[t])
          /\ (pc[t] = "callback" /\ pc'[t] # "callback")
                 => pc'[t] \in {"sleep", "long_sleep", "err_sleep"}
          /\ (pc[t] \in {"sleep", "long_sleep", "err_sleep"} /\ pc'[t] # pc[t])
                 => pc'[t] = "loop"]_vars

\* C23 witness: start_capture succeeded while the thread of the stopped run
\* had not yet left the loop, and the new thread is in the callback with its
\* frame.
C23_Witness ==
    /\ last_call.op = "start_capture"
    /\ last_call.ret
    /\ last_call.pre.alive # {}
    /\ _capture_thread # 0
    /\ _capture_thread \notin last_call.pre.alive
    /\ pc[_capture_thread] = "callback"

(***************************************************************************)
(* Properties of the monitoring pipeline.                                  *)
(***************************************************************************)
\* a finished detection cycle c with at least one survivor, each with its
\* centre inside some zone of the list the cycle was given
AllSurvivorsExcluded(c) ==
    /\ c.boxes # <<>>
    /\ \A j \in 1..Len(c.boxes) :
           CentreInSomeZone(c.boxes[j][1], c.boxes[j][2], c.boxes[j][3], c.boxes[j][4],
                            c.zones)

\* C2: a cycle in which every surviving detection has its centre inside an
\* exclusion zone makes the detector report smartphone_detected when its
\* detection returns, and its outcome opens no alert tab and does not set
\* the alert latch.
C2_ExcludedNeverAlerts ==
    [][\A t \in Threads :
          /\ (ps[t].stage = "detect" /\ ps'[t].stage = "outcome"
                 /\ AllSurvivorsExcluded(ps'[t]))
                => smartphone_detected'
          /\ (ps[t].stage = "outcome" /\ ps'[t].stage # "outcome"
                 /\ AllSurvivorsExcluded(ps[t]))
                => UNCHANGED alertVars]_vars

\* C2 witness: while monitoring, a cycle with two survivors, both inside
\* exclusion zones, has returned from detection and is not actionable.
C2_Witness ==
    \E t \in Threads :
        /\ ps[t].stage = "outcome"
        /\ Len(ps[t].boxes) = 2
        /\ AllSurvivorsExcluded(ps[t])
        /\ smartphone_detected
        /\ ~ps[t].ret
        /\ is_monitoring

\* a finished detection cycle c with a survivor whose centre is in no zone of
\* the list the cycle was given
ActionableCycle(c) ==
    \E j \in 1..Len(c.boxes) :
        ~CentreInSomeZone(c.boxes[j][1], c.boxes[j][2], c.boxes[j][3], c.boxes[j][4],
                          c.zones)

\* thread t takes the outcome step of its cycle
OutcomeStep(t) == ps[t].stage = "outcome" /\ ps'[t].stage # "outcome"

\* C12: while monitoring, the outcome of an actionable cycle appends exactly
\* one new tab to the open tabs, whatever their number, and sets the latch;
\* the outcome of a cycle that is not actionable leaves the tabs as they are.
C12_OneAlertPerActionableCycle ==
    [][\A t \in Threads :
          (OutcomeStep(t) /\ is_monitoring) =>
              IF ActionableCycle(ps[t])
              THEN /\ Len(notification_tabs') = Len(notification_tabs) + 1
                   /\ SubSeq(notification_tabs', 1, Len(notification_tabs))
                          = notification_tabs
                   /\ notification_shown'
                   /\ notification_window' = "open"
              ELSE UNCHANGED <<notification_tabs, notification_window>>]_vars

\* C12 witness: while monitoring, a second alert tab has been opened next to
\* the first.
C12_Witness ==
    /\ is_monitoring
    /\ notification_shown
    /\ notification_window = "open"
    /\ Len(notification_tabs) = 2

\* C13: with the latch set, the outcome of a cycle that is not actionable
\* leaves the latch set and the alert window, its tabs and the tab counter
\* unchanged.
C13_LatchPersists ==
    [][\A t \in Threads :
          (OutcomeStep(t) /\ ~ActionableCycle(ps[t]) /\ notification_shown) =>
              /\ notification_shown'
              /\ UNCHANGED <<notification_window, notification_tabs, tab_count>>]_vars

\* C13 witness: the latch is set and a tab is open while the most recent
\* detection found no smartphone and its outcome has been dealt with.
C13_Witness ==
    /\ is_monitoring
    /\ notification_shown
    /\ notification_tabs # <<>>
    /\ ~smartphone_detected
    /\ last_detections = <<>>
    /\ \A t \in Threads : ps[t].stage = "none"
    /\ \E t \in Threads : pc[t] \in {"sleep", "long_sleep"}

\* a single tab is dismissed: one tab fewer, by close_notification_tab
DismissStep ==
    /\ Len(notification_tabs') = Len(notification_tabs) - 1
    /\ notification_window' # "destroyed"

\* C14: dismissing one tab removes exactly that tab from the open tabs, and
\* when no tab is left the latch is cleared.
C14_DismissClearsLatch ==
    [][DismissStep =>
          /\ \E i \in 1..Len(notification_tabs) :
                 notification_tabs' = RemoveAt(notification_tabs, i)
          /\ notification_tabs' = <<>> => ~notification_shown']_vars

\* the "Close All Tabs" button is pressed: the open window is destroyed
DismissAllStep == notification_window = "open" /\ notification_window' = "destroyed"

\* C15: dismiss-all removes every open tab and clears the latch.
C15_DismissAllClearsLatch ==
    [][DismissAllStep => (notification_tabs' = <<>> /\ ~notification_shown')]_vars

\* a tab is removed from the open tabs
RemovalStep ==
    \E k \in 1..Len(notification_tabs) :
        \A j \in 1..Len(notification_tabs') :
            notification_tabs'[j] # notification_tabs[k]

\* C16: stopping monitoring leaves the alert window and its tabs as they
\* were, no tab is removed while stop_monitoring is waiting in stop_capture,
\* and a tab is removed only by a handler of the UI context that is a
\* dismissal of one tab or of all.
C16_StopKeepsAlerts ==
    [][/\ (is_monitoring /\ ~is_monitoring')
              => UNCHANGED <<notification_window, notification_tabs, tab_count>>
       /\ (ui_pc = "join") => ~RemovalStep
       /\ RemovalStep =>
              /\ DismissStep \/ DismissAllStep
              /\ UNCHANGED <<is_monitoring, capVars, ps>>]_vars

\* C16 witness: monitoring has been stopped and two alert tabs are still
\* open.
C16_Witness ==
    /\ ~is_monitoring
    /\ ~_running
    /\ ui_pc = "idle"
    /\ notification_window = "open"
    /\ Len(notification_tabs) = 2

\* an alert tab is opened; its id is the last of the open tabs
OpenStep == Len(notification_tabs') = Len(notification_tabs) + 1

NewTabId == notification_tabs'[Len(notification_tabs')]

\* C17 as stated: every newly opened alert gets an id greater than the last
\* id assigned before it, which tab_count holds.
C17_Original == [][OpenStep => NewTabId > tab_count]_vars

\* C17, amended: within one alert window every newly opened alert gets an id
\* greater than every id assigned in that window before, so the open alerts
\* have distinct ids; the first alert of a new window gets id 1.
C17_IdsIncreaseWithinWindow ==
    [][OpenStep =>
          /\ NewTabId = tab_count'
          /\ \A j \in 1..Len(notification_tabs) : notification_tabs[j] < NewTabId
          /\ IF notification_window = "open"
             THEN NewTabId > tab_count
             ELSE NewTabId = 1]_vars

\* C17 witness: alert 2 was opened after alert 1 in the same window, and
\* alert 1 has been dismissed.
C17_Witness ==
    /\ notification_window = "open"
    /\ notification_tabs = <<2>>
    /\ tab_count = 2

\* C22: a failure of the detection is caught inside process_screenshot: the
\* cycle leaves the alert window, its tabs and the latch as they were,
\* process_screenshot returns normally to the capture loop, and the thread
\* goes to its interval sleep as after any other cycle.
C22_DetectionFailureCaught ==
    [][\A t \in Threads :
          /\ (ps[t].stage = "detect" /\ ps'[t].stage = "failed")
                 => (UNCHANGED alertVars /\ pc'[t] = "callback")
          /\ (ps[t].stage = "failed" /\ ps'[t].stage # "failed")
                 => /\ UNCHANGED alertVars
                    /\ ps'[t] = NoCycle
                    /\ pc'[t] \in {"sleep", "long_sleep"}]_vars

\* C22 witness: while monitoring with an alert open and the latch set, the
\* detection of a cycle has failed and the failure has been caught.
C22_Witness ==
    \E t \in Threads :
        /\ ps[t].stage = "failed"
        /\ pc[t] = "callback"
        /\ is_monitoring
        /\ notification_shown
        /\ notification_tabs # <<>>

(***************************************************************************)
(* Properties of a detection cycle running beside the UI context.          *)
(***************************************************************************)
\* C18: every detection of a cycle is classified against the zone list as
\* it was when the cycle began.
C18_ZoneSnapshot ==
    \A t \in Threads :
        \A j \in 1..Len(ps[t].zones_read) : ps[t].zones_read[j] = ps[t].zones

\* C19: the threshold read for every box of a cycle is the threshold that
\* was handed to the model at the start of the cycle.
C19_ThresholdSnapshot ==
    \A t \in Threads :
        \A j \in 1..Len(ps[t].thr_read) : ps[t].thr_read[j] = ps[t].thr_call


\* C27: while monitoring is stopped (from the step in which stop_monitoring
\* clears is_monitoring until start_monitoring sets it again) no alert tab is
\* opened and the latch keeps its value, also when a frame callback that had
\* passed its is_monitoring check was in flight at the stop.
C27_QuietAfterStop ==
    [][(~is_monitoring /\ ~is_monitoring') =>
          (~OpenStep /\ UNCHANGED notification_shown)]_vars

\* C28: whenever neither start_monitoring nor stop_monitoring is in progress,
\* is_monitoring equals the scheduler's running flag; a start while
\* monitoring leaves the scheduler and the latch as they are, and while
\* monitoring is off no step stops the scheduler again or starts it.
C28_FlagsAgree ==
    /\ [](ui_pc = "idle" => (is_monitoring = _running))
    /\ [][/\ (is_monitoring /\ is_monitoring') =>
                 /\ UNCHANGED <<_running, _capture_thread, _callback>>
                 /\ (notification_shown => notification_shown')
          /\ (~is_monitoring /\ ~is_monitoring') =>
                 /\ UNCHANGED <<_running, _callback>>
                 /\ (ui_pc = "idle" => ui_pc' = "idle")]_vars

\* monitoring runs again after a stop: the thread of the stopped run is
\* still alive next to the thread of this run, and an alert has been raised
C28_Witness ==
    /\ ui_pc = "idle"
    /\ is_monitoring
    /\ _running
    /\ notification_shown
    /\ \E t \in Threads : t # _capture_thread /\ pc[t] # "idle"

\* a zone is inserted: the zone list grows by one
InsertionStep == Len(exclusion_zones') = Len(exclusion_zones) + 1

\* C29: every insertion of a zone by on_mouse_up happens while is_monitoring
\* is false, also when the selection mode was entered before monitoring
\* was started.
C29_NoInsertionWhileMonitoring == [][InsertionStep => ~is_monitoring]_vars

LastRectangle ==
    LET g == last_call.drag
    IN <<IF g[1] <= g[3] THEN g[1] ELSE g[3], IF g[2] <= g[4] THEN g[2] ELSE g[4],
         IF g[1] <= g[3] THEN g[3] ELSE g[1], IF g[2] <= g[4] THEN g[4] ELSE g[2]>>

\* the last operation was a drag that inserted a zone
ZoneInserted == last_call.op = "on_mouse_up" /\ last_call.ret

\* the zone the last drag inserted
LastZone == last_call.zones[1]

\* C24: every stored zone has x1 <= x2 and y1 <= y2 in frame space, whatever
\* the direction of the drag that inserted it, and insertions and clearing
\* keep this true of the zones that remain stored.
C24_ZonesCanonical ==
    \A i \in 1..Len(exclusion_zones) :
        /\ exclusion_zones[i][1] <= exclusion_zones[i][3]
        /\ exclusion_zones[i][2] <= exclusion_zones[i][4]

\* a second zone was inserted by a drag from the lower right to the upper left
C24_Witness ==
    /\ ZoneInserted
    /\ last_call.drag[1] > last_call.drag[3]
    /\ last_call.drag[2] > last_call.drag[4]
    /\ Len(exclusion_zones) = 2
    /\ exclusion_zones[2] = LastZone
    /\ LastZone[1] < LastZone[3]
    /\ LastZone[2] < LastZone[4]

\* C25: the conversion used on insertion maps every corner of the drag into
\* [0, w] x [0, h] of the frame: a corner left of or above the letterbox
\* maps to 0, never to a negative value, and a corner right of or below it
\* maps to at most w or h.
C25_FramePointInside ==
    ZoneInserted =>
        LET p == last_call.preview
            r == LastRectangle
        IN /\ \A k \in {1, 3} : LastZone[k] \in 0..p.w
           /\ \A k \in {2, 4} : LastZone[k] \in 0..p.h
           /\ \A k \in {1, 3} : r[k] < x_offset(p) => LastZone[k] = 0
           /\ \A k \in {2, 4} : r[k] < y_offset(p) => LastZone[k] = 0

\* a drag that starts left of the letterbox and ends right of it
C25_Witness ==
    /\ ZoneInserted
    /\ LastRectangle[1] < x_offset(last_call.preview)
    /\ LastRectangle[3] > x_offset(last_call.preview) + new_w(last_call.preview)
    /\ exclusion_zones # <<>>
    /\ exclusion_zones[Len(exclusion_zones)] = LastZone
    /\ LastZone[1] = 0
    /\ LastZone[3] = last_call.preview.w

\* C26: a corner of the drag that lies inside the letterboxed image comes
\* back, after the conversion to frame space on insertion and the
\* conversion to canvas space on redrawing, at most one pixel away from
\* where it was on each axis.
C26_RoundTripWithinOnePixel ==
    ZoneInserted =>
        LET p == last_call.preview
            r == LastRectangle
            c == ScaledZone(LastZone, p)
        IN /\ \A k \in {1, 3} :
                  (r[k] >= x_offset(p) /\ r[k] <= x_offset(p) + new_w(p))
                      => (c[k] - r[k] \in -1..1)
           /\ \A k \in {2, 4} :
                  (r[k] >= y_offset(p) /\ r[k] <= y_offset(p) + new_h(p))
                      => (c[k] - r[k] \in -1..1)

====
